---- MODULE Spec2Model ----
(***************************************************************************)
(* Model of the synchronisation core of notion-sync-action:                *)
(*   GitHubActionController.run  -> SyncPageUseCaseImpl.execute            *)
(*     -> FileSystemMarkdownRepository / JsonFileMappingRepository /       *)
(*        NotionGateway / BidirectionalLinkUpdater.                        *)
(* Every await of execute and of updateLinks is one action; the user and   *)
(* the remote service act between invocations.                             *)
(*                                                                         *)
(* An optional value (T | null | undefined) is a sequence: <<>> or <<v>>.  *)
(***************************************************************************)
EXTENDS Integers, Sequences, FiniteSets, TLC

\* ------------------------------------------------------------- bounds
\* page ids the gateway can generate in one behaviour
MaxPages == 2
\* versions of a body: the user creates a file at version 1 and every edit
\* gives the next version
MaxBody == 2
\* instants the clock can advance to where the link reconciler is run alone
MaxClock == 1
\* invocations of the link reconciler on one document and page
MaxInvocations == 2

Paths == {"docs/a.md", "docs/b.md"}
Bodies == 1..MaxBody
\* files the discovery step can list; only the '.md' ones are documents
OtherFiles == {"src/code.js"}
AllFiles == Paths \cup OtherFiles

\* a page id: the n-th id NotionGateway.generateId hands out
GenId(n) == <<"id", n>>
GenIds == {GenId(n) : n \in 1..MaxPages}
\* the placeholder ids of the code: '' and 'dry-run'
EmptyId == <<>>
DryRunId == <<"dry-run">>

None == <<>>
Some(v) == <<v>>
IsSome(o) == o # <<>>
Get(o) == o[1]

\* ------------------------------------------------------------- domain
\* Date.prototype.toISOString and new Date(string): inverse on instants
toISOString(t) == [iso |-> t]
\* a Date constructor that gives the epoch whatever the string
parseDate_epoch(s) == 0
parseDate(s) == s.iso

\* generateNotionUrl and the template in updateLinks: `https://notion.so/${id}`
generateNotionUrl(pageId) == <<"https://notion.so/", pageId>>

\* buildGitHubUrl with the default repository and branch
buildGitHubUrl(filePath) == <<"https://github.com/owner/repo/blob/main/", filePath>>

\* The text of a markdown file is kept in parsed form: the front-matter
\* block and the body that follows it.  Front-matter keys the program reads
\* or writes: notion_url, last_synced.
EmptyFrontmatter == [notion_url |-> None, last_synced |-> None]

\* MarkdownParser.parse: split the text in front-matter and body
parse(content) == [frontmatter |-> content.fm, body |-> content.body]

\* MarkdownParser.serialize: the text holding this front-matter and body
serialize(frontmatter, body) == [fm |-> frontmatter, body |-> body]

\* FileSystemMarkdownRepository.calculateChecksum: sha256 over the WHOLE text
\* of the file (front-matter included).  The digest is an equality token:
\* equal texts give equal digests, different texts different ones.  The
\* string digest('hex') returns is kept as its parts: it has one part, the
\* hex digits of the digest, and nothing before or after them.
calculateChecksum(content) == <<[sha256 |-> content]>>

\* The characters of the paths the model names: the two documents of the
\* working tree, and paths a Document can be built with.
PathText ==
  [path \in {"docs/a.md", "docs/b.md", "docs/.md", ".md", "a.md.md", "a.mdx.md",
             "README", "docs/", "", "b.md", "src/code.js", "docs/a.mdx"} |->
     CASE path = "docs/a.md" -> <<"d", "o", "c", "s", "/", "a", ".", "m", "d">>
       [] path = "docs/b.md" -> <<"d", "o", "c", "s", "/", "b", ".", "m", "d">>
       [] path = "docs/.md" -> <<"d", "o", "c", "s", "/", ".", "m", "d">>
       [] path = ".md" -> <<".", "m", "d">>
       [] path = "a.md.md" -> <<"a", ".", "m", "d", ".", "m", "d">>
       [] path = "a.mdx.md" -> <<"a", ".", "m", "d", "x", ".", "m", "d">>
       [] path = "README" -> <<"R", "E", "A", "D", "M", "E">>
       [] path = "docs/" -> <<"d", "o", "c", "s", "/">>
       [] path = "" -> <<>>
       [] path = "b.md" -> <<"b", ".", "m", "d">>
       [] path = "src/code.js" -> <<"s", "r", "c", "/", "c", "o", "d", "e", ".", "j", "s">>
       [] path = "docs/a.mdx" -> <<"d", "o", "c", "s", "/", "a", ".", "m", "d", "x">>]

\* String.prototype.split(sep).pop() || '': the text after the last separator
LastSegment(text, sep) ==
  LET at == {i \in DOMAIN text : text[i] = sep}
  IN IF at = {} THEN text
     ELSE SubSeq(text, (CHOOSE i \in at : \A j \in at : j <= i) + 1, Len(text))

\* String.prototype.replace(pattern, with) for a string pattern: the first
\* occurrence is replaced, the rest is kept
ReplaceFirst(text, pattern, with) ==
  LET at == {i \in 1..(Len(text) - Len(pattern) + 1) :
               SubSeq(text, i, i + Len(pattern) - 1) = pattern}
  IN IF at = {} THEN text
     ELSE LET i == CHOOSE k \in at : \A j \in at : k <= j
          IN SubSeq(text, 1, i - 1) \o with \o SubSeq(text, i + Len(pattern), Len(text))

\* Document.extractTitleFromPath
extractTitleFromPath(path) ==
  ReplaceFirst(LastSegment(PathText[path], "/"), <<".", "m", "d">>, <<>>)

\* Document.getTitle: frontmatter.title || extractTitleFromPath()
getTitle(document) ==
  LET title == IF "title" \in DOMAIN document.frontmatter
               THEN document.frontmatter.title ELSE <<>>
  IN IF title # <<>> THEN title ELSE extractTitleFromPath(document.path)

\* Document.hasNotionUrl: !!frontmatter.notion_url
hasNotionUrl(document) == IsSome(document.frontmatter.notion_url)

\* a withNotionUrl that builds the front-matter anew, with notion_url alone
withNotionUrl_fresh(document, url) ==
  [document EXCEPT !.frontmatter = [EmptyFrontmatter EXCEPT !.notion_url = Some(url)]]

\* Document.withNotionUrl
withNotionUrl(document, url) ==
  [document EXCEPT !.frontmatter = [@ EXCEPT !.notion_url = Some(url)]]

\* Document.withUpdatedFrontmatter({last_synced: ...})
withUpdatedFrontmatter(document, last_synced) ==
  [document EXCEPT !.frontmatter = [@ EXCEPT !.last_synced = Some(last_synced)]]

\* a needsSync that always asks for a sync
needsSync_always(mapping, newChecksum) == TRUE

\* PageMapping.needsSync
needsSync(mapping, newChecksum) == mapping.checksum # newChecksum

\* a withBlocks that keeps the blocks the page had and adds the new ones
withBlocks_appended(page, blocks) == [page EXCEPT !.blocks = @ \o blocks]

\* Page.withBlocks
withBlocks(page, blocks) == [page EXCEPT !.blocks = blocks]

\* a withGitHubLink that records the url in the metadata alone
withGitHubLink_metadataOnly(page, url) ==
  [page EXCEPT !.metadata = [@ EXCEPT !.githubUrl = Some(url)]]

\* Page.withGitHubLink: prepend a callout, set metadata.githubUrl
withGitHubLink(page, url) ==
  [page EXCEPT !.blocks = <<[type |-> "callout", text |-> url]>> \o @,
               !.metadata = [@ EXCEPT !.githubUrl = Some(url)]]

\* SyncPageUseCaseImpl.convertToBlocks: one paragraph holding the content
convertToBlocks(document) == <<[type |-> "paragraph", text |-> document.content]>>

\* the Page built by SyncPageUseCaseImpl.createPage, id '' until created
newPage(document) ==
  [id |-> EmptyId,
   title |-> getTitle(document),
   blocks |-> convertToBlocks(document),
   metadata |-> [sourceFile |-> Some(document.path), githubUrl |-> None],
   permissions |-> "none"]

\* PagePermissions.ts: EditAccessLevel, from the most restrictive level up
EditAccessLevels == <<"none", "read", "comment", "edit", "full">>

\* a mapToPage that answers with editable pages
mapToPage_editable(id) ==
  [id |-> id,
   title |-> <<"Title">>,
   blocks |-> <<>>,
   metadata |-> [sourceFile |-> None, githubUrl |-> None],
   permissions |-> "edit"]

\* NotionGateway.mapToPage: only the id is taken from the remote answer
mapToPage(id) ==
  [id |-> id,
   title |-> <<"Title">>,
   blocks |-> <<>>,
   metadata |-> [sourceFile |-> None, githubUrl |-> None],
   permissions |-> "none"]

\* ------------------------------------------------------------- errors
\* DomainErrors.ts: DocumentNotFoundError
DocumentNotFoundError(path) ==
  [name |-> "DocumentNotFoundError", message |-> <<"Document not found: ", path>>,
   cause |-> None]

\* DomainErrors.ts: SyncError(message, cause)
SyncError(message, cause) ==
  [name |-> "SyncError", message |-> <<"Sync failed: ", message>>, cause |-> Some(cause)]

\* an Error rejected by the remote client behind a PageRepository call
GatewayFailure(op) == [name |-> "Error", message |-> <<op, " failed">>, cause |-> None]

\* NotionGateway.findById, catch branch: any non-404 failure is rethrown as
\* new Error(`Failed to retrieve page: ${error?.message}`)
FailedToRetrieve(error) ==
  [name |-> "Error", message |-> <<"Failed to retrieve page: ", error.message>>,
   cause |-> None]

\* ------------------------------------------------------------- state
NoHistory == [createdFor |-> [id \in GenIds |-> None], cut |-> [p \in Paths |-> {}]]

VARIABLES
  files,        \* the working tree: path -> optional text of the file
  mappingFile,  \* .notion-page-ids.json: <<>> while it does not exist
  remote,       \* the remote service: page id -> optional page
  generated,    \* how many ids generateId has handed out
  now,          \* the instant new Date() gives; no branch of the program
                \* reads a timestamp back, and the clock is not advanced here
  ctl,          \* GitHubActionController.run: position, config, results
  ex,           \* SyncPageUseCaseImpl.execute: position and locals
  calls,        \* the collaborator calls made by the execute in flight
  outcomes,     \* what each execute of this invocation ended with
  lastSync,     \* path -> page id of the successful non-dry-run sync that
                \* was the last thing to happen to the path, if any
  hist,         \* history: the path each page was created for, and the
                \* paths whose sync was cut between the create and the save
  repo          \* JsonFileMappingRepository: caller -> the operation of the
                \* store it has in flight, from its loadData to its end

vars ==
  <<files, mappingFile, remote, generated, now, ctl, ex, calls, outcomes, lastSync,
    hist, repo>>

\* ------------------------------------------------------------- document source
\* the text of an empty file
EmptyText == [fm |-> EmptyFrontmatter, body |-> 0]

\* a findByPath that reads a missing file as an empty document
documentRepo_findByPath_empty(path) ==
  LET content == IF files[path] = None THEN EmptyText ELSE Get(files[path])
      parsed == parse(content)
  IN Some([path |-> path,
           content |-> parsed.body,
           frontmatter |-> parsed.frontmatter,
           checksum |-> calculateChecksum(content)])

\* FileSystemMarkdownRepository.findByPath: null when the file cannot be read
documentRepo_findByPath(path) ==
  IF files[path] = None THEN None
  ELSE LET content == Get(files[path])
           parsed == parse(content)
       IN Some([path |-> path,
                content |-> parsed.body,
                frontmatter |-> parsed.frontmatter,
                checksum |-> calculateChecksum(content)])

\* FileSystemMarkdownRepository.save: the working tree after writing the file
documentRepo_save(document) ==
  [files EXCEPT ![document.path] =
     Some(serialize(document.frontmatter, document.content))]

\* ------------------------------------------------------------- mapping store
EmptyData == [version |-> "1.0", mappings |-> [p \in Paths |-> None]]

\* The text of the mapping file is kept as the data JSON.stringify wrote; a
\* text JSON.parse rejects (a truncated or overwritten file) is Garbled.
Garbled(data) == [garbled |-> data]
IsGarbled(content) == "garbled" \in DOMAIN content

\* JsonFileMappingRepository.loadData: readFile and JSON.parse in one try;
\* the catch gives the empty data whatever failed (no file, or no JSON)
loadData ==
  IF mappingFile = None \/ IsGarbled(Get(mappingFile)) THEN EmptyData
  ELSE Get(mappingFile)

\* a findByPath that finds no mapping for any path
mappingRepo_findByPath_none(path) == None

\* new PageMapping(path, mapping.page_id, mapping.checksum,
\*                 new Date(mapping.last_synced))
toPageMapping(path, mapping) ==
  [filePath |-> path,
   pageId |-> mapping.page_id,
   checksum |-> mapping.checksum,
   lastSynced |-> Some(parseDate(mapping.last_synced))]

\* findByPath, after its loadData: data.mappings[path] as a PageMapping
mappingOf(data, path) ==
  LET mapping == data.mappings[path]
  IN IF mapping = None THEN None ELSE Some(toPageMapping(path, Get(mapping)))

\* JsonFileMappingRepository.findByPath
mappingRepo_findByPath(path) == mappingOf(loadData, path)

\* a save that writes a file holding the saved mapping alone
mappingRepo_save_fresh(mapping) ==
  Some([EmptyData EXCEPT !.mappings[mapping.filePath] =
     Some([page_id |-> mapping.pageId,
           checksum |-> mapping.checksum,
           last_synced |-> toISOString(now)])])

\* save, between its loadData and its saveData: data.mappings[filePath] = {...}
withMapping(data, mapping) ==
  [data EXCEPT !.mappings[mapping.filePath] =
     Some([page_id |-> mapping.pageId,
           checksum |-> mapping.checksum,
           last_synced |-> IF IsSome(mapping.lastSynced)
                           THEN toISOString(Get(mapping.lastSynced))
                           ELSE toISOString(now)])]

\* JsonFileMappingRepository.save: the file after the upsert (loadData, set
\* data.mappings[filePath], saveData)
mappingRepo_save(mapping) == Some(withMapping(loadData, mapping))

\* delete, between its loadData and its saveData: delete data.mappings[path]
withoutMapping(data, path) == [data EXCEPT !.mappings[path] = None]

\* JsonFileMappingRepository.delete: the file without the entry of the path
mappingRepo_delete(path) == Some(withoutMapping(loadData, path))

\* the keys of data.mappings, as Object.entries lists them
PathOrder == <<"docs/a.md", "docs/b.md">>

\* findAll, after its loadData: Object.entries(data.mappings).map(...)
mappingRepo_findAll(data) ==
  LET stored == SelectSeq(PathOrder, LAMBDA path : data.mappings[path] # None)
  IN [i \in DOMAIN stored |->
        toPageMapping(stored[i], Get(data.mappings[stored[i]]))]

\* The operations of the store as their callers see them: each one awaits
\* loadData, works on the data it got, and save and delete then await
\* saveData; between the two a step of another caller may run.
MaxCallers == 2
Callers == 1..MaxCallers

RepoIdle ==
  [pc |-> "idle", name |-> "", mapping |-> None, path |-> "", data |-> None,
   result |-> None,
   \* bookkeeping: the file when the operation was called
   fileBefore |-> None]

NoOps == [c \in Callers |-> RepoIdle]

\* the mappings save is called with
StoreMappings ==
  {[filePath |-> path, pageId |-> id,
    checksum |-> calculateChecksum(serialize(EmptyFrontmatter, body)),
    lastSynced |-> lastSynced] :
     path \in Paths, id \in GenIds, body \in 1..MaxBody,
     lastSynced \in {None} \cup {Some(t) : t \in 0..MaxClock}}

\* an operation is called and its loadData resolves with data
repo_loadData(c, name, mapping, path, data) ==
  /\ repo[c].pc # "loaded"
  /\ repo' = [repo EXCEPT ![c] =
       [pc |-> "loaded", name |-> name, mapping |-> mapping, path |-> path,
        data |-> Some(data), result |-> None, fileBefore |-> mappingFile]]
  /\ UNCHANGED <<files, mappingFile, remote, generated, now, ctl, ex, calls, outcomes,
                 lastSync, hist>>

\* an operation resolves
repo_return(c, result) ==
  /\ repo' = [repo EXCEPT ![c].pc = "done", ![c].result = result]
  /\ UNCHANGED <<files, remote, generated, now, ctl, ex, calls, outcomes, lastSync, hist>>

save_loadData(c) ==
  \E mapping \in StoreMappings :
    repo_loadData(c, "save", Some(mapping), mapping.filePath, loadData)

\* save, after its loadData: set the entry, saveData
save_saveData(c) ==
  /\ repo[c].pc = "loaded" /\ repo[c].name = "save"
  /\ mappingFile' = Some(withMapping(Get(repo[c].data), Get(repo[c].mapping)))
  /\ repo_return(c, None)

delete_loadData(c) ==
  \E path \in Paths : repo_loadData(c, "delete", None, path, loadData)

\* delete, after its loadData: remove the entry, saveData
delete_saveData(c) ==
  /\ repo[c].pc = "loaded" /\ repo[c].name = "delete"
  /\ mappingFile' = Some(withoutMapping(Get(repo[c].data), repo[c].path))
  /\ repo_return(c, None)

findByPath_loadData(c) ==
  \E path \in Paths : repo_loadData(c, "findByPath", None, path, loadData)

findByPath_return(c) ==
  /\ repo[c].pc = "loaded" /\ repo[c].name = "findByPath"
  /\ repo_return(c, Some(mappingOf(Get(repo[c].data), repo[c].path)))
  /\ UNCHANGED mappingFile

findAll_loadData(c) == repo_loadData(c, "findAll", None, "", loadData)

findAll_return(c) ==
  /\ repo[c].pc = "loaded" /\ repo[c].name = "findAll"
  /\ repo_return(c, Some(mappingRepo_findAll(Get(repo[c].data))))
  /\ UNCHANGED mappingFile

\* save or delete is called while readFile rejects (the file is there but
\* cannot be read): the catch of loadData gives the empty data
loadData_readFails(c) ==
  /\ mappingFile # None
  /\ \/ \E mapping \in StoreMappings :
          repo_loadData(c, "save", Some(mapping), mapping.filePath, EmptyData)
     \/ \E path \in Paths : repo_loadData(c, "delete", None, path, EmptyData)

\* ------------------------------------------------------------- gateway
\* a findById that reports every page as not found
gateway_findById_notFound(id) == None

\* NotionGateway.findById, success and 404: the page mapped from the answer,
\* or null when the remote service has no such page
gateway_findById(id) ==
  IF id \in GenIds /\ remote[id] # None THEN Some(mapToPage(id)) ELSE None

\* NotionGateway.create: the page with a generated id
gateway_create(page) == [page EXCEPT !.id = GenId(generated + 1)]

\* NotionGateway.update: the page as given
gateway_update(page) == page

\* ------------------------------------------------------------- execute
ExIdle ==
  [pc |-> "idle", filePath |-> "", dryRun |-> FALSE,
   document |-> None, mapping |-> None, existingPage |-> None, page |-> None,
   response |-> None, thrown |-> None,
   \* bookkeeping: the call that failed, and the state execute was called in
   failedAt |-> "", prior |-> None, storeBefore |-> None, textBefore |-> None,
   heldBefore |-> None]

\* execute, step 3: if (mapping && !mapping.needsSync(document.getChecksum()))
skipRule(mapping, document) ==
  IsSome(mapping) /\ ~needsSync(Get(mapping), document.checksum)

\* an execute that ignores the dry-run flag
dryRunRule_ignored(request) == FALSE

\* execute, step 4: if (request.dryRun)
dryRunRule(request) == request.dryRun

\* execute: status: mapping ? 'updated' : 'created'
responseStatus(mapping) == IF IsSome(mapping) THEN "updated" ELSE "created"

\* a dry-run answer that always announces a creation
dryRunResponse_created(mapping) ==
  [status |-> "created", pageId |-> DryRunId, notionUrl |-> None]

\* execute, step 4: { status: mapping ? 'updated' : 'created', pageId: 'dry-run' }
dryRunResponse(mapping) ==
  [status |-> responseStatus(mapping), pageId |-> DryRunId, notionUrl |-> None]

\* a mapping that keeps the checksum read from the store
newMapping_oldChecksum(filePath, page, document) ==
  [filePath |-> filePath, pageId |-> page.id,
   checksum |-> IF IsSome(ex.mapping) THEN Get(ex.mapping).checksum
                ELSE document.checksum,
   lastSynced |-> Some(now)]

\* a mapping built with the id of the page as it was before the gateway
\* assigned one
newMapping_unassigned(filePath, page, document) ==
  [filePath |-> filePath, pageId |-> EmptyId, checksum |-> document.checksum,
   lastSynced |-> Some(now)]

\* execute, step 6: new PageMapping(filePath, page.getId(), checksum, new Date())
newMapping(filePath, page, document) ==
  [filePath |-> filePath, pageId |-> page.id, checksum |-> document.checksum,
   lastSynced |-> Some(now)]

Response(status, pageId, notionUrl) ==
  [status |-> status, pageId |-> pageId, notionUrl |-> notionUrl]

\* execute resolves: the response is what the awaiting caller gets
Returns(e, response) ==
  /\ ex' = [e EXCEPT !.pc = "done", !.response = Some(response)]
  /\ outcomes' = Append(outcomes, [file |-> e.filePath, response |-> Some(response),
                                   thrown |-> None])
  /\ lastSync' = [lastSync EXCEPT ![e.filePath] =
                    IF e.dryRun THEN None ELSE Some(response.pageId)]

\* execute rejects: nothing in execute catches, the error reaches the caller
Throws(e, error, at) ==
  /\ ex' = [e EXCEPT !.pc = "done", !.thrown = Some(error), !.failedAt = at]
  /\ outcomes' = Append(outcomes, [file |-> e.filePath, response |-> None,
                                   thrown |-> Some(error)])
  /\ lastSync' = [lastSync EXCEPT ![e.filePath] = None]

\* a step 1 that removes the mapping of a document that is gone
execute_loadDocument_deletesMapping ==
  /\ ex.pc = "loadDocument"
  /\ calls' = Append(calls, "documentRepo.findByPath")
  /\ LET document == documentRepo_findByPath(ex.filePath)
     IN IF document = None
        THEN /\ Throws(ex, DocumentNotFoundError(ex.filePath), "documentRepo.findByPath")
             /\ mappingFile' = mappingRepo_delete(ex.filePath)
        ELSE /\ ex' = [ex EXCEPT !.pc = "checkMapping", !.document = document]
             /\ UNCHANGED <<outcomes, lastSync, mappingFile>>
  /\ UNCHANGED <<files, remote, generated, hist, now, ctl>>
  /\ UNCHANGED repo

\* execute, step 1: load the document, or throw DocumentNotFoundError
execute_loadDocument ==
  /\ ex.pc = "loadDocument"
  /\ calls' = Append(calls, "documentRepo.findByPath")
  /\ LET document == documentRepo_findByPath(ex.filePath)
     IN IF document = None
        THEN Throws(ex, DocumentNotFoundError(ex.filePath), "documentRepo.findByPath")
        ELSE /\ ex' = [ex EXCEPT !.pc = "checkMapping", !.document = document]
             /\ UNCHANGED <<outcomes, lastSync>>
  /\ UNCHANGED <<files, mappingFile, remote, generated, hist, now, ctl>>
  /\ UNCHANGED repo

\* execute, steps 2 to 4: load the mapping, skip rule, dry-run rule
execute_checkMapping ==
  /\ ex.pc = "checkMapping"
  /\ calls' = Append(calls, "mappingRepo.findByPath")
  /\ LET mapping == mappingRepo_findByPath(ex.filePath)
         e == [ex EXCEPT !.mapping = mapping]
     IN IF skipRule(mapping, Get(ex.document))
        THEN Returns(e, Response("unchanged", Get(mapping).pageId, None))
        ELSE IF dryRunRule(ex)
        THEN Returns(e, dryRunResponse(mapping))
        ELSE /\ ex' = [e EXCEPT !.pc = IF IsSome(mapping) THEN "findById"
                                        ELSE "createPage"]
             /\ UNCHANGED <<outcomes, lastSync>>
  /\ UNCHANGED <<files, mappingFile, remote, generated, hist, now, ctl>>
  /\ UNCHANGED repo

\* execute, step 5, mapping present: pageRepo.findById(mapping.getPageId())
execute_findById ==
  /\ ex.pc = "findById"
  /\ calls' = Append(calls, "pageRepo.findById")
  /\ \E ok \in BOOLEAN :
       IF ok
       THEN LET existingPage == gateway_findById(Get(ex.mapping).pageId)
            IN /\ ex' = [ex EXCEPT !.existingPage = existingPage,
                                   !.pc = IF existingPage = None THEN "createPage"
                                          ELSE "updatePage"]
               /\ UNCHANGED <<outcomes, lastSync>>
       ELSE Throws(ex, FailedToRetrieve(GatewayFailure("retrieve")), "pageRepo.findById")
  /\ UNCHANGED <<files, mappingFile, remote, generated, hist, now, ctl>>
  /\ UNCHANGED repo

\* createPage: pageRepo.create(new Page('', title, blocks, {sourceFile}, 'none'))
execute_createPage ==
  /\ ex.pc = "createPage"
  /\ calls' = Append(calls, "pageRepo.create")
  /\ \E ok \in BOOLEAN :
       IF ok /\ generated < MaxPages
       THEN LET page == gateway_create(newPage(Get(ex.document)))
            IN /\ remote' = [remote EXCEPT ![page.id] = Some(page)]
               /\ generated' = generated + 1
               /\ hist' = [hist EXCEPT !.createdFor[page.id] = Some(ex.filePath)]
               /\ ex' = [ex EXCEPT !.page = Some(page), !.pc = "saveMapping"]
               /\ UNCHANGED <<outcomes, lastSync>>
       ELSE /\ Throws(ex, GatewayFailure("create"), "pageRepo.create")
            /\ UNCHANGED <<remote, generated, hist>>
  /\ UNCHANGED <<files, mappingFile, now, ctl>>
  /\ UNCHANGED repo

\* an update step that has saved the mapping before the remote write
execute_updatePage_savedFirst ==
  /\ ex.pc = "updatePage"
  /\ mappingFile' = mappingRepo_save(
        newMapping(ex.filePath, Get(ex.existingPage), Get(ex.document)))
  /\ \E ok \in BOOLEAN :
       IF ok
       THEN LET page == gateway_update(withBlocks(Get(ex.existingPage),
                                                  convertToBlocks(Get(ex.document))))
            IN /\ calls' = calls \o <<"pageRepo.update">>
               /\ remote' = [remote EXCEPT ![page.id] = Some(page)]
               /\ ex' = [ex EXCEPT !.page = Some(page), !.pc = "updateLinks"]
               /\ UNCHANGED <<outcomes, lastSync>>
       ELSE /\ calls' = calls \o <<"pageRepo.update">>
            /\ Throws(ex, GatewayFailure("update"), "pageRepo.update")
            /\ UNCHANGED remote
  /\ UNCHANGED <<files, generated, hist, now, ctl>>
  /\ UNCHANGED repo

\* updatePage: pageRepo.update(existingPage.withBlocks(blocks))
execute_updatePage ==
  /\ ex.pc = "updatePage"
  /\ calls' = Append(calls, "pageRepo.update")
  /\ \E ok \in BOOLEAN :
       IF ok
       THEN LET page == gateway_update(withBlocks(Get(ex.existingPage),
                                                  convertToBlocks(Get(ex.document))))
            IN /\ remote' = [remote EXCEPT ![page.id] = Some(page)]
               /\ ex' = [ex EXCEPT !.page = Some(page), !.pc = "saveMapping"]
               /\ UNCHANGED <<outcomes, lastSync>>
       ELSE /\ Throws(ex, GatewayFailure("update"), "pageRepo.update")
            /\ UNCHANGED remote
  /\ UNCHANGED <<files, mappingFile, generated, hist, now, ctl>>
  /\ UNCHANGED repo

\* a step 6 that goes on to the link reconciliation without saving
execute_saveMapping_skipped ==
  /\ ex.pc = "saveMapping"
  /\ ex' = [ex EXCEPT !.pc = "updateLinks"]
  /\ UNCHANGED <<files, mappingFile, remote, generated, hist, now, ctl, calls, outcomes,
                 lastSync>>
  /\ UNCHANGED repo

\* execute, step 6: mappingRepo.save(newMapping)
execute_saveMapping ==
  /\ ex.pc = "saveMapping"
  /\ calls' = Append(calls, "mappingRepo.save")
  /\ mappingFile' = mappingRepo_save(newMapping(ex.filePath, Get(ex.page),
                                                Get(ex.document)))
  /\ ex' = [ex EXCEPT !.pc = "updateLinks"]
  /\ UNCHANGED <<files, remote, generated, hist, now, ctl, outcomes, lastSync>>
  /\ UNCHANGED repo

\* an updateLinks whose first half saves the document whether or not it has
\* a notion_url
updateLinks_document_unguarded ==
  /\ ex.pc = "updateLinks"
  /\ files' = documentRepo_save(
         withUpdatedFrontmatter(
           withNotionUrl(Get(ex.document), generateNotionUrl(Get(ex.page).id)),
           toISOString(now)))
  /\ calls' = calls \o <<"linkUpdater.updateLinks", "documentRepo.save">>
  /\ ex' = [ex EXCEPT !.pc = "updateLinksPage"]
  /\ UNCHANGED <<mappingFile, remote, generated, hist, now, ctl, outcomes, lastSync>>
  /\ UNCHANGED repo

\* execute, step 7, and updateLinks, first half: write notion_url and
\* last_synced into the document unless it has a notion_url
updateLinks_document ==
  /\ ex.pc = "updateLinks"
  /\ LET document == Get(ex.document)
         notionUrl == generateNotionUrl(Get(ex.page).id)
     IN IF ~hasNotionUrl(document)
        THEN /\ files' = documentRepo_save(
                  withUpdatedFrontmatter(withNotionUrl(document, notionUrl),
                                         toISOString(now)))
             /\ calls' = calls \o <<"linkUpdater.updateLinks", "documentRepo.save">>
        ELSE /\ calls' = Append(calls, "linkUpdater.updateLinks")
             /\ UNCHANGED files
  /\ ex' = [ex EXCEPT !.pc = "updateLinksPage"]
  /\ UNCHANGED <<mappingFile, remote, generated, hist, now, ctl, outcomes, lastSync>>
  /\ UNCHANGED repo

\* updateLinks, second half: give the page its GitHub link unless it has
\* one; then execute returns
updateLinks_page ==
  /\ ex.pc = "updateLinksPage"
  /\ LET page == Get(ex.page)
         response == Response(responseStatus(ex.mapping), page.id,
                              Some(generateNotionUrl(page.id)))
     IN IF page.metadata.githubUrl = None
        THEN /\ calls' = Append(calls, "pageRepo.update")
             /\ \E ok \in BOOLEAN :
                  IF ok
                  THEN LET updatedPage ==
                             gateway_update(withGitHubLink(page,
                                                           buildGitHubUrl(ex.filePath)))
                       IN /\ remote' = [remote EXCEPT ![page.id] = Some(updatedPage)]
                          /\ Returns(ex, response)
                  ELSE /\ Throws(ex, GatewayFailure("update"), "linkUpdater.pageRepo.update")
                       /\ UNCHANGED remote
        ELSE /\ Returns(ex, response)
             /\ UNCHANGED <<calls, remote>>
  /\ UNCHANGED <<files, mappingFile, generated, hist, now, ctl>>
  /\ UNCHANGED repo

\* the caller invokes updateLinks once more with the same document and page
updateLinks_again ==
  /\ ex.pc = "done"
  /\ Len(outcomes) < MaxInvocations
  /\ ex' = [ex EXCEPT !.pc = "updateLinks", !.response = None, !.thrown = None,
                       !.failedAt = "", !.textBefore = files[ex.filePath],
                       !.heldBefore = remote[Get(ex.page).id]]
  /\ calls' = <<>>
  /\ UNCHANGED <<files, mappingFile, remote, generated, hist, now, ctl, outcomes, lastSync>>
  /\ UNCHANGED repo

\* ------------------------------------------------------------- controller
\* String.prototype.endsWith
EndsWith(text, suffix) ==
  /\ Len(text) >= Len(suffix)
  /\ SubSeq(text, Len(text) - Len(suffix) + 1, Len(text)) = suffix

\* GitHubActionController.shouldSync: file.endsWith('.md')
shouldSync(file) == EndsWith(PathText[file], <<".", "m", "d">>)

\* the lists getChangedFiles can resolve to: distinct files in any order
FileLists ==
  {l \in UNION {[1..n -> AllFiles] : n \in 0..Cardinality(AllFiles)} :
     \A i, j \in DOMAIN l : i # j => l[i] # l[j]}

Count(results, status) == Len(SelectSeq(results, LAMBDA r : r.status = status))

\* a report that counts the unchanged documents as updated as well
generateReport_unchangedTwice(results) ==
  [total |-> Len(results),
   created |-> Count(results, "created"),
   updated |-> Count(results, "updated") + Count(results, "unchanged"),
   unchanged |-> Count(results, "unchanged"),
   errors |-> Count(results, "error"),
   details |-> results]

\* GitHubActionController.generateReport
generateReport(results) ==
  [total |-> Len(results),
   created |-> Count(results, "created"),
   updated |-> Count(results, "updated"),
   unchanged |-> Count(results, "unchanged"),
   errors |-> Count(results, "error"),
   details |-> results]

\* GitHubActionController.setOutputs: synced-count, page-urls, sync-report
setOutputs(results) ==
  LET withUrl == SelectSeq(results, LAMBDA r : IsSome(r.notionUrl))
  IN [syncedCount |-> Len(SelectSeq(results, LAMBDA r : r.status # "error")),
      pageUrls |-> [i \in 1..Len(withUrl) |->
                      [file |-> withUrl[i].file, url |-> Get(withUrl[i].notionUrl)]],
      syncReport |-> generateReport(results)]

\* run, try branch of the loop body: the entry pushed for a resolved execute
resultEntry(file, response) ==
  [file |-> file, status |-> response.status, pageId |-> response.pageId,
   notionUrl |-> response.notionUrl, error |-> None]

\* run, catch branch of the loop body: the entry pushed for a rejected execute
errorEntry(file, error) ==
  [file |-> file, status |-> "error", pageId |-> EmptyId,
   notionUrl |-> None, error |-> Some(error.message)]

CtlIdle ==
  [pc |-> "idle", dryRun |-> FALSE, enableBidirectionalLinks |-> TRUE,
   markdownFiles |-> <<>>, results |-> <<>>, failed |-> None, outputs |-> None,
   \* bookkeeping: the list getChangedFiles resolved to, where it is recorded
   discovered |-> <<>>]

Quiet == ctl.pc = "idle"

\* run, with the configuration loadConfig read: getChangedFiles resolved,
\* the '.md' files are kept
run_begin(enableBidirectionalLinks) ==
  /\ Quiet
  /\ \E discovered \in FileLists, dryRun \in BOOLEAN :
       ctl' = [CtlIdle EXCEPT !.pc = "loop", !.dryRun = dryRun,
                              !.enableBidirectionalLinks = enableBidirectionalLinks,
                              !.markdownFiles = SelectSeq(discovered, shouldSync)]
  /\ ex' = ExIdle
  /\ calls' = <<>>
  /\ outcomes' = <<>>
  /\ UNCHANGED <<files, mappingFile, remote, generated, hist, now, lastSync>>
  /\ UNCHANGED repo

\* what a glob over the working tree can list besides the documents
DiscoveredFiles == Paths \cup {"src/code.js", "docs/a.mdx", "README"}

\* the same step of run, on any list of distinct files, the list recorded
run_discovered ==
  /\ Quiet
  /\ \E n \in 0..Cardinality(DiscoveredFiles), dryRun \in BOOLEAN :
       \E discovered \in {l \in [1..n -> DiscoveredFiles] :
                            \A i, j \in 1..n : i # j => l[i] # l[j]} :
         ctl' = [CtlIdle EXCEPT !.pc = "loop", !.dryRun = dryRun,
                                !.discovered = discovered,
                                !.markdownFiles = SelectSeq(discovered, shouldSync)]
  /\ ex' = ExIdle
  /\ calls' = <<>>
  /\ outcomes' = <<>>
  /\ UNCHANGED <<files, mappingFile, remote, generated, hist, now, lastSync, repo>>

\* run with enable-bidirectional-links at its default, 'true'
run_start == run_begin(TRUE)

\* run with enable-bidirectional-links: false
run_linksDisabled == run_begin(FALSE)

\* core.setFailed(message): the failures recorded for the invocation
setFailed(failed, message) == Append(failed, message)

\* index.ts run: new DIContainer() throws because the required input
\* notion-token is not supplied; the catch of run marks the invocation failed
\* and no controller exists
run_configInvalid ==
  /\ Quiet
  /\ ctl' = [CtlIdle EXCEPT !.pc = "done",
                            !.failed = setFailed(CtlIdle.failed,
                               <<"Input required and not supplied: ", "notion-token">>)]
  /\ ex' = ExIdle
  /\ calls' = <<>>
  /\ outcomes' = <<>>
  /\ UNCHANGED <<files, mappingFile, remote, generated, hist, now, lastSync>>
  /\ UNCHANGED repo

\* a discovery failure after which the outputs of an empty run are still set
run_discoveryFails_andOutputs ==
  /\ Quiet
  /\ \E dryRun \in BOOLEAN :
       ctl' = [CtlIdle EXCEPT !.pc = "done", !.dryRun = dryRun,
                              !.failed = setFailed(CtlIdle.failed,
                                                   <<"glob", " failed">>),
                              !.outputs = Some(setOutputs(<<>>))]
  /\ ex' = ExIdle
  /\ calls' = <<>>
  /\ outcomes' = <<>>
  /\ UNCHANGED <<files, mappingFile, remote, generated, hist, now, lastSync>>
  /\ UNCHANGED repo

\* run: getChangedFiles rejected, the outer catch marks the invocation failed
run_discoveryFails ==
  /\ Quiet
  /\ \E dryRun \in BOOLEAN :
       ctl' = [CtlIdle EXCEPT !.pc = "done", !.dryRun = dryRun,
                              !.failed = setFailed(CtlIdle.failed,
                                                   <<"glob", " failed">>)]
  /\ ex' = ExIdle
  /\ calls' = <<>>
  /\ outcomes' = <<>>
  /\ UNCHANGED <<files, mappingFile, remote, generated, hist, now, lastSync>>
  /\ UNCHANGED repo

\* a loop body that calls execute without the dry-run flag
run_callExecute_notDryRun ==
  /\ ctl.pc = "loop"
  /\ Len(ctl.results) < Len(ctl.markdownFiles)
  /\ LET file == ctl.markdownFiles[Len(ctl.results) + 1]
     IN ex' = [ExIdle EXCEPT !.pc = "loadDocument", !.filePath = file,
                             !.prior = lastSync[file],
                             !.storeBefore = mappingFile,
                             !.textBefore = files[file]]
  /\ ctl' = [ctl EXCEPT !.pc = "awaitExecute"]
  /\ calls' = <<>>
  /\ UNCHANGED <<files, mappingFile, remote, generated, hist, now, outcomes, lastSync>>
  /\ UNCHANGED repo

\* run, loop body: syncPageUseCase.execute({filePath: file, dryRun})
run_callExecute ==
  /\ ctl.pc = "loop"
  /\ Len(ctl.results) < Len(ctl.markdownFiles)
  /\ LET file == ctl.markdownFiles[Len(ctl.results) + 1]
     IN ex' = [ExIdle EXCEPT !.pc = "loadDocument", !.filePath = file,
                             !.dryRun = ctl.dryRun, !.prior = lastSync[file],
                             !.storeBefore = mappingFile,
                             !.textBefore = files[file]]
  /\ ctl' = [ctl EXCEPT !.pc = "awaitExecute"]
  /\ calls' = <<>>
  /\ UNCHANGED <<files, mappingFile, remote, generated, hist, now, outcomes, lastSync>>
  /\ UNCHANGED repo

\* a loop body without the inner try/catch: a rejected execute reaches the
\* outer catch, which marks the invocation failed
run_pushResult_rethrows ==
  /\ ctl.pc = "awaitExecute"
  /\ ex.pc = "done"
  /\ ctl' = IF ex.thrown = None
            THEN [ctl EXCEPT !.pc = "loop",
                             !.results = Append(@, resultEntry(ex.filePath,
                                                               Get(ex.response)))]
            ELSE [ctl EXCEPT !.pc = "done",
                             !.failed = Some(Get(ex.thrown).message)]
  /\ ex' = ExIdle
  /\ calls' = <<>>
  /\ UNCHANGED <<files, mappingFile, remote, generated, hist, now, outcomes, lastSync>>
  /\ UNCHANGED repo

\* run, loop body: push the result of the execute, or the error entry
run_pushResult ==
  /\ ctl.pc = "awaitExecute"
  /\ ex.pc = "done"
  /\ ctl' = [ctl EXCEPT !.pc = "loop",
                        !.results = Append(@,
                           IF ex.thrown = None
                           THEN resultEntry(ex.filePath, Get(ex.response))
                           ELSE errorEntry(ex.filePath, Get(ex.thrown)))]
  /\ ex' = ExIdle
  /\ calls' = <<>>
  /\ UNCHANGED <<files, mappingFile, remote, generated, hist, now, outcomes, lastSync>>
  /\ UNCHANGED repo

\* run, after the loop: this.setOutputs(results)
run_setOutputs ==
  /\ ctl.pc = "loop"
  /\ Len(ctl.results) = Len(ctl.markdownFiles)
  /\ ctl' = [ctl EXCEPT !.pc = "done", !.outputs = Some(setOutputs(ctl.results))]
  /\ UNCHANGED <<files, mappingFile, remote, generated, hist, now, ex, calls, outcomes,
                 lastSync>>
  /\ UNCHANGED repo

\* run has resolved and the process exits; the next invocation starts anew
run_exit ==
  /\ ctl.pc = "done"
  /\ ctl' = CtlIdle
  /\ ex' = ExIdle
  /\ calls' = <<>>
  /\ outcomes' = <<>>
  /\ UNCHANGED <<files, mappingFile, remote, generated, hist, now, lastSync>>
  /\ UNCHANGED repo

\* ------------------------------------------------------------- environment
Running == ex.pc \notin {"idle", "done"}

\* the user edits a file: the body changes, the front-matter is kept
UserWrite ==
  /\ Quiet
  /\ \E path \in Paths :
       /\ files[path] # None
       /\ Get(files[path]).body < MaxBody
       /\ files' = [files EXCEPT ![path] =
                      Some(serialize(Get(files[path]).fm, Get(files[path]).body + 1))]
       /\ lastSync' = [lastSync EXCEPT ![path] = None]
  /\ UNCHANGED <<mappingFile, remote, generated, hist, now, ctl, ex, calls, outcomes>>
  /\ UNCHANGED repo

\* the user removes a file from the working tree
UserDelete ==
  /\ Quiet
  /\ \E path \in Paths :
       /\ files[path] # None
       /\ files' = [files EXCEPT ![path] = None]
       /\ lastSync' = [lastSync EXCEPT ![path] = None]
  /\ UNCHANGED <<mappingFile, remote, generated, hist, now, ctl, ex, calls, outcomes>>
  /\ UNCHANGED repo

\* a page is deleted in the remote service, out of band
RemoteDelete ==
  /\ Quiet
  /\ \E id \in GenIds :
       /\ remote[id] # None
       /\ remote' = [remote EXCEPT ![id] = None]
  /\ UNCHANGED <<files, mappingFile, generated, hist, now, ctl, ex, calls, outcomes, lastSync>>
  /\ UNCHANGED repo

\* the mapping file is damaged on disk: its text is no longer JSON
StoreCorrupted ==
  /\ Quiet
  /\ mappingFile # None
  /\ ~IsGarbled(Get(mappingFile))
  /\ mappingFile' = Some(Garbled(Get(mappingFile)))
  /\ UNCHANGED <<files, remote, generated, hist, now, ctl, ex, calls, outcomes, lastSync>>
  /\ UNCHANGED repo

\* the invocation is aborted (timeout, external signal): the process is gone
\* with everything it held in memory; the files and the remote pages stay
Abort ==
  /\ ctl.pc \in {"loop", "awaitExecute"}
  /\ ctl' = CtlIdle
  /\ ex' = ExIdle
  /\ calls' = <<>>
  /\ outcomes' = <<>>
  /\ lastSync' = IF Running THEN [lastSync EXCEPT ![ex.filePath] = None] ELSE lastSync
  /\ hist' = IF ex.pc = "saveMapping" /\ calls[Len(calls)] = "pageRepo.create"
             THEN [hist EXCEPT !.cut[ex.filePath] =
                     @ \cup {IF ex.mapping = None THEN "create" ELSE "recreate"}]
             ELSE hist
  /\ UNCHANGED <<files, mappingFile, remote, generated, now>>
  /\ UNCHANGED repo

\* time passes between two invocations of the link reconciler
Tick ==
  /\ ex.pc = "done"
  /\ now < MaxClock
  /\ now' = now + 1
  /\ UNCHANGED <<files, mappingFile, remote, generated, hist, ctl, ex, calls, outcomes,
                 lastSync>>
  /\ UNCHANGED repo

\* ------------------------------------------------------------- specification
Init ==
  /\ files \in [Paths -> {None, Some(serialize(EmptyFrontmatter, 1))}]
  /\ mappingFile = None
  /\ remote = [id \in GenIds |-> None]
  /\ generated = 0
  /\ now = 0
  /\ ctl = CtlIdle
  /\ ex = ExIdle
  /\ calls = <<>>
  /\ outcomes = <<>>
  /\ lastSync = [p \in Paths |-> None]
  /\ hist = NoHistory
  /\ repo = NoOps

Next ==
  \/ run_start
  \/ run_discoveryFails
  \/ run_configInvalid
  \/ run_callExecute
  \/ run_pushResult
  \/ run_setOutputs
  \/ run_exit
  \/ execute_loadDocument
  \/ execute_checkMapping
  \/ execute_findById
  \/ execute_createPage
  \/ execute_updatePage
  \/ execute_saveMapping
  \/ updateLinks_document
  \/ updateLinks_page
  \/ UserWrite
  \/ UserDelete
  \/ RemoteDelete

Spec == Init /\ [][Next]_vars

\* the same program with a mapping file that can be damaged between invocations
NextStoreFault == Next \/ StoreCorrupted
SpecStoreFault == Init /\ [][NextStoreFault]_vars

\* The same program with invocations that can be aborted.  The mapping
\* file may be there when the process starts, left by an earlier invocation,
\* with an entry whose page has since been deleted in the remote service.
LegacyId == <<"legacy">>
LegacyEntry ==
  [page_id |-> LegacyId,
   checksum |-> calculateChecksum(EmptyText),
   last_synced |-> toISOString(0)]

InitAbort ==
  /\ files \in [Paths -> {None, Some(serialize(EmptyFrontmatter, 1))}]
  /\ mappingFile \in {None} \cup
       {Some([EmptyData EXCEPT !.mappings[path] = Some(LegacyEntry)]) : path \in Paths}
  /\ remote = [id \in GenIds |-> None]
  /\ generated = 0
  /\ now = 0
  /\ ctl = CtlIdle
  /\ ex = ExIdle
  /\ calls = <<>>
  /\ outcomes = <<>>
  /\ lastSync = [p \in Paths |-> None]
  /\ hist = NoHistory
  /\ repo = NoOps

NextAbort == Next \/ Abort
SpecAbort == InitAbort /\ [][NextAbort]_vars

\* The mapping store used by a caller that awaits each operation before it
\* calls the next, as execute does: the file is missing, empty, holds entries
\* or is not JSON.
StoredData ==
  [EmptyData EXCEPT !.mappings =
     [path \in Paths |->
        Some([page_id |-> GenId(1),
              checksum |-> calculateChecksum(serialize(EmptyFrontmatter, 1)),
              last_synced |-> toISOString(0)])]]

InitStore ==
  /\ mappingFile \in {None, Some(EmptyData), Some(StoredData), Some(Garbled(StoredData))}
  /\ files = [path \in Paths |-> None]
  /\ remote = [id \in GenIds |-> None]
  /\ generated = 0
  /\ now = 0
  /\ ctl = CtlIdle
  /\ ex = ExIdle
  /\ calls = <<>>
  /\ outcomes = <<>>
  /\ lastSync = [p \in Paths |-> None]
  /\ hist = NoHistory
  /\ repo = NoOps

NoneInFlight == \A c \in Callers : repo[c].pc # "loaded"

NextStore ==
  \E c \in {1} :
    \/ NoneInFlight /\ save_loadData(c)
    \/ save_saveData(c)
    \/ NoneInFlight /\ delete_loadData(c)
    \/ delete_saveData(c)
    \/ NoneInFlight /\ findByPath_loadData(c)
    \/ findByPath_return(c)
    \/ NoneInFlight /\ findAll_loadData(c)
    \/ findAll_return(c)

SpecStore == InitStore /\ [][NextStore]_vars

\* The same caller, with reads of the file that may fail.
NextStoreReadFault ==
  \/ NextStore
  \/ \E c \in {1} : NoneInFlight /\ loadData_readFails(c)

SpecStoreReadFault == InitStore /\ [][NextStoreReadFault]_vars

\* Two syncs run concurrently: each caller saves one mapping, and the steps
\* of the two saves interleave.
NextConcurrentSaves ==
  \E c \in Callers :
    \/ repo[c].pc = "idle" /\ save_loadData(c)
    \/ save_saveData(c)

SpecConcurrentSaves == InitStore /\ [][NextConcurrentSaves]_vars

\* One document synced again and again without dry-run, the user not
\* editing it: the file carries a notion_url or none, the mapping file has
\* no entry for the path or one with any checksum, for a page the remote
\* service holds or has lost.
ConvergeEntries(text) ==
  {[page_id |-> id, checksum |-> checksum, last_synced |-> toISOString(0)] :
     id \in {GenId(1), LegacyId},
     checksum \in {calculateChecksum(text), calculateChecksum(EmptyText)}}

InitConverge ==
  /\ \E path \in Paths, body \in 1..MaxBody,
        url \in {None, Some(generateNotionUrl(GenId(1)))}, held \in BOOLEAN :
       LET text == serialize([EmptyFrontmatter EXCEPT !.notion_url = url], body)
       IN /\ files = [q \in Paths |-> IF q = path THEN Some(text) ELSE None]
          /\ mappingFile \in {None} \cup
               {Some([EmptyData EXCEPT !.mappings[path] = Some(entry)]) :
                  entry \in ConvergeEntries(text)}
          /\ remote = [id \in GenIds |->
                         IF held /\ id = GenId(1) THEN Some(mapToPage(id)) ELSE None]
          /\ ex = [ExIdle EXCEPT !.pc = "loadDocument", !.filePath = path,
                                 !.storeBefore = mappingFile,
                                 !.textBefore = Some(text)]
  /\ generated = 1
  /\ now = 0
  /\ ctl = [CtlIdle EXCEPT !.pc = "awaitExecute"]
  /\ calls = <<>>
  /\ outcomes = <<>>
  /\ lastSync = [p \in Paths |-> None]
  /\ hist = NoHistory
  /\ repo = NoOps

\* the next sync of the same path: execute({filePath, dryRun: false})
sync_again ==
  /\ ex.pc = "done"
  /\ ex' = [ExIdle EXCEPT !.pc = "loadDocument", !.filePath = ex.filePath,
                          !.prior = lastSync[ex.filePath],
                          !.storeBefore = mappingFile,
                          !.textBefore = files[ex.filePath]]
  /\ calls' = <<>>
  /\ outcomes' = <<>>
  /\ UNCHANGED <<files, mappingFile, remote, generated, hist, now, ctl, lastSync, repo>>

NextConverge ==
  \/ execute_loadDocument
  \/ execute_checkMapping
  \/ execute_findById
  \/ execute_createPage
  \/ execute_updatePage
  \/ execute_saveMapping
  \/ updateLinks_document
  \/ updateLinks_page
  \/ sync_again

\* every call execute awaits resolves or rejects, and the sync is repeated
SpecConverge == InitConverge /\ [][NextConverge]_vars /\ WF_vars(NextConverge)

\* Syncs one after the other with no fault of the kinds that lose a page or
\* a mapping: no invocation is aborted, no page is deleted in the remote
\* service, the mapping file stays readable.  The user edits files between
\* and during the syncs, and what each sync ended with is kept.
InitRetry ==
  /\ files \in [Paths -> {None, Some(serialize(EmptyFrontmatter, 1))}]
  /\ mappingFile = None
  /\ remote = [id \in GenIds |-> None]
  /\ generated = 0
  /\ now = 0
  /\ ctl = CtlIdle
  /\ ex = ExIdle
  /\ calls = <<>>
  /\ outcomes = <<>>
  /\ lastSync = [p \in Paths |-> None]
  /\ hist = NoHistory
  /\ repo = NoOps

\* the next sync: execute({filePath, dryRun}), once the one before has ended
sync_next ==
  /\ ex.pc \in {"idle", "done"}
  /\ Len(outcomes) < MaxInvocations
  /\ \E path \in Paths, dryRun \in BOOLEAN :
       ex' = [ExIdle EXCEPT !.pc = "loadDocument", !.filePath = path,
                            !.dryRun = dryRun, !.prior = lastSync[path],
                            !.storeBefore = mappingFile,
                            !.textBefore = files[path]]
  /\ calls' = <<>>
  /\ UNCHANGED <<files, mappingFile, remote, generated, hist, now, ctl, outcomes, lastSync,
                 repo>>

NextRetry ==
  \/ sync_next
  \/ execute_loadDocument
  \/ execute_checkMapping
  \/ execute_findById
  \/ execute_createPage
  \/ execute_updatePage
  \/ execute_saveMapping
  \/ updateLinks_document
  \/ updateLinks_page
  \/ UserWrite

SpecRetry == InitRetry /\ [][NextRetry]_vars

\* One invocation on any list of discovered files.
NextDiscovery ==
  \/ run_discovered
  \/ run_callExecute
  \/ run_pushResult
  \/ run_setOutputs
  \/ execute_loadDocument
  \/ execute_checkMapping
  \/ execute_createPage
  \/ execute_saveMapping
  \/ updateLinks_document
  \/ updateLinks_page

SpecDiscovery == Init /\ [][NextDiscovery]_vars

\* The action run with either value of enable-bidirectional-links.
NextOptions == Next \/ run_linksDisabled
SpecOptions == Init /\ [][NextOptions]_vars

\* createPage on any Document: the paths of PathText, with and without a
\* title and a notion_url in the front-matter.
TitleDocuments ==
  {[path |-> path, content |-> 1, frontmatter |-> fm,
    checksum |-> calculateChecksum(serialize(fm, 1))] :
     path \in DOMAIN PathText,
     fm \in {EmptyFrontmatter} \cup
            {[notion_url |-> url, last_synced |-> None, title |-> title] :
               url \in {None, Some(generateNotionUrl(GenId(1)))},
               title \in {<<>>, <<"T">>}}}

InitTitle ==
  /\ \E document \in TitleDocuments :
       ex = [ExIdle EXCEPT !.pc = "createPage", !.filePath = document.path,
                          !.document = Some(document)]
  /\ files = [path \in Paths |-> None]
  /\ mappingFile = None
  /\ remote = [id \in GenIds |-> None]
  /\ generated = 0
  /\ now = 0
  /\ ctl = [CtlIdle EXCEPT !.pc = "awaitExecute"]
  /\ calls = <<>>
  /\ outcomes = <<>>
  /\ lastSync = [p \in Paths |-> None]
  /\ hist = NoHistory
  /\ repo = NoOps

NextTitle == execute_createPage
SpecTitle == InitTitle /\ [][NextTitle]_vars

\* The link reconciler run alone: updateLinks(document, page) on any document
\* and page, the file and the remote page being what the two objects were
\* built from, and then again on the same two objects.
LinkDocuments ==
  {[path |-> path, content |-> body, frontmatter |-> fm,
    checksum |-> calculateChecksum(serialize(fm, body))] :
     path \in Paths, body \in Bodies,
     fm \in {EmptyFrontmatter} \cup
            {[notion_url |-> Some(generateNotionUrl(id)),
              last_synced |-> Some(toISOString(0))] : id \in GenIds}}

LinkPages ==
  {[id |-> id, title |-> <<"Title">>, blocks |-> blocks,
    metadata |-> [sourceFile |-> None, githubUrl |-> url],
    permissions |-> "none"] :
     id \in GenIds,
     blocks \in {<<>>, <<[type |-> "paragraph", text |-> 1]>>},
     url \in {None} \cup {Some(buildGitHubUrl(path)) : path \in Paths}}

InitLinks ==
  /\ \E document \in LinkDocuments, page \in LinkPages :
       /\ files = [path \in Paths |->
                     IF path = document.path
                     THEN Some(serialize(document.frontmatter, document.content))
                     ELSE None]
       /\ remote = [id \in GenIds |-> IF id = page.id THEN Some(page) ELSE None]
       /\ ex = [ExIdle EXCEPT !.pc = "updateLinks", !.filePath = document.path,
                              !.document = Some(document), !.page = Some(page),
                              !.textBefore = files[document.path],
                              !.heldBefore = Some(page)]
  /\ mappingFile = None
  /\ generated = MaxPages
  /\ now = 0
  /\ ctl = [CtlIdle EXCEPT !.pc = "awaitExecute"]
  /\ calls = <<>>
  /\ outcomes = <<>>
  /\ lastSync = [p \in Paths |-> None]
  /\ hist = NoHistory
  /\ repo = NoOps

NextLinks ==
  \/ updateLinks_document
  \/ updateLinks_page
  \/ updateLinks_again
  \/ Tick

SpecLinks == InitLinks /\ [][NextLinks]_vars

\* The two page writes on any page: the update branch of execute on any
\* existing page, and the second half of updateLinks on any page.
AnyPages ==
  {[id |-> id, title |-> title, blocks |-> blocks,
    metadata |-> [sourceFile |-> sourceFile, githubUrl |-> githubUrl],
    permissions |-> permissions] :
     id \in GenIds,
     title \in {<<"Title">>, <<"a">>},
     blocks \in {<<>>,
                 <<[type |-> "paragraph", text |-> 1]>>,
                 <<[type |-> "callout", text |-> buildGitHubUrl("docs/a.md")],
                   [type |-> "paragraph", text |-> 1]>>,
                 <<[type |-> "paragraph", text |-> 2],
                   [type |-> "callout", text |-> buildGitHubUrl("docs/a.md")],
                   [type |-> "paragraph", text |-> 1]>>},
     sourceFile \in {None, Some("docs/a.md")},
     githubUrl \in {None, Some(buildGitHubUrl("docs/a.md"))},
     permissions \in {"none", "edit"}}

InitPages ==
  /\ \E document \in LinkDocuments, page \in AnyPages :
       /\ files = [path \in Paths |->
                     IF path = document.path
                     THEN Some(serialize(document.frontmatter, document.content))
                     ELSE None]
       /\ remote = [id \in GenIds |-> IF id = page.id THEN Some(page) ELSE None]
       /\ \/ ex = [ExIdle EXCEPT !.pc = "updatePage", !.filePath = document.path,
                                  !.document = Some(document),
                                  !.existingPage = Some(page),
                                  !.textBefore = files[document.path],
                                  !.heldBefore = Some(page)]
          \/ ex = [ExIdle EXCEPT !.pc = "updateLinksPage", !.filePath = document.path,
                                  !.document = Some(document), !.page = Some(page),
                                  !.textBefore = files[document.path],
                                  !.heldBefore = Some(page)]
  /\ mappingFile = None
  /\ generated = MaxPages
  /\ now = 0
  /\ ctl = [CtlIdle EXCEPT !.pc = "awaitExecute"]
  /\ calls = <<>>
  /\ outcomes = <<>>
  /\ lastSync = [p \in Paths |-> None]
  /\ hist = NoHistory
  /\ repo = NoOps

NextPages ==
  \/ execute_updatePage
  \/ updateLinks_page

SpecPages == InitPages /\ [][NextPages]_vars

\* ------------------------------------------------------------- properties
Range(seq) == {seq[i] : i \in DOMAIN seq}

\* the entry the mapping file holds for a path (<<>> when it holds none)
StoredIn(file, path) ==
  IF file = None \/ IsGarbled(Get(file)) THEN None ELSE Get(file).mappings[path]
Stored(path) == StoredIn(mappingFile, path)
\* the entry it held when the execute in flight was called
StoredBefore == StoredIn(ex.storeBefore, ex.filePath)

Returned == ex.pc = "done" /\ ex.response # None
Threw == ex.pc = "done" /\ ex.thrown # None

ReadCalls == {"documentRepo.findByPath", "mappingRepo.findByPath"}
GatewayCalls == {"pageRepo.findById", "pageRepo.create", "pageRepo.update"}

\* C1 - skip rule.  When execute has loaded the document and the mapping
\* file holds an entry for the path whose checksum is the checksum of the
\* file's current text, the next step of execute returns 'unchanged' with the
\* stored page id; the only calls made are the two reads, and the working
\* tree, the mapping file and the remote pages are left as they are - with
\* and without dry-run.
C1_SkipRule ==
  [][(/\ ex.pc = "checkMapping"
      /\ Stored(ex.filePath) # None
      /\ Get(Stored(ex.filePath)).checksum = calculateChecksum(Get(files[ex.filePath])))
     => /\ ex'.pc = "done"
        /\ ex'.thrown = None
        /\ ex'.response = Some(Response("unchanged", Get(Stored(ex.filePath)).page_id, None))
        /\ calls' = <<"documentRepo.findByPath", "mappingRepo.findByPath">>
        /\ UNCHANGED <<files, mappingFile, remote, generated, hist>>]_vars

\* a dry-run execute that ended by the skip rule
C1_Witness ==
  /\ Returned
  /\ ex.dryRun
  /\ Get(ex.response).status = "unchanged"
  /\ Get(ex.response).pageId \in GenIds

\* C3 - dry-run purity.  No step of an execute called with dryRun = true
\* changes the working tree, the mapping file or the remote pages, and the
\* only collaborator calls it makes are the two reads (no create, update,
\* mapping save, updateLinks or document save).
C3_DryRunPurity ==
  [][(Running /\ ex.dryRun)
     => /\ UNCHANGED <<files, mappingFile, remote, generated, hist>>
        /\ Range(calls') \subseteq ReadCalls]_vars

\* a dry-run execute of a changed document whose path is already mapped and
\* whose remote page exists: the real run would have updated the page
C3_Witness ==
  /\ Returned
  /\ ex.dryRun
  /\ ex.response = Some(Response("updated", DryRunId, None))
  /\ StoredBefore # None
  /\ remote[Get(StoredBefore).page_id] # None

\* C7 - missing document.  When the file of the path cannot be read, the
\* first step of execute throws DocumentNotFoundError; the only call made is
\* documentRepo.findByPath, and nothing is written anywhere.
C7_MissingDocument ==
  [][(ex.pc = "loadDocument" /\ files[ex.filePath] = None)
     => /\ ex'.pc = "done"
        /\ ex'.response = None
        /\ ex'.thrown = Some(DocumentNotFoundError(ex.filePath))
        /\ calls' = <<"documentRepo.findByPath">>
        /\ UNCHANGED <<files, mappingFile, remote, generated, hist>>]_vars

\* the document of a mapped path has been removed, and execute threw
C7_Witness ==
  /\ Threw
  /\ Get(ex.thrown).name = "DocumentNotFoundError"
  /\ StoredBefore # None

\* the checksum of the text the execute in flight loaded
LoadedChecksum == calculateChecksum(Get(ex.textBefore))

\* C4 - create, then update.  A non-dry-run execute that returns for a path
\* that had no mapping returns 'created' after a gateway create and leaves an
\* entry for the path with the checksum of the text it loaded and the id of
\* the created page.  One that returns for a mapped path whose stored
\* checksum differs from the loaded one, the mapped page being present
\* remotely, returns 'updated' with the mapped page id after a gateway update
\* and no create, and leaves the entry with the same page id and the checksum
\* of the text it loaded.
C4_CreateThenUpdate ==
  (Returned /\ ~ex.dryRun) =>
    LET r == Get(ex.response)
        stored == Stored(ex.filePath)
    IN /\ StoredBefore = None =>
            /\ r.status = "created"
            /\ "pageRepo.create" \in Range(calls)
            /\ r.pageId \in GenIds
            /\ stored # None
            /\ Get(stored).page_id = r.pageId
            /\ Get(stored).checksum = LoadedChecksum
       /\ (/\ StoredBefore # None
           /\ Get(StoredBefore).checksum # LoadedChecksum
           /\ remote[Get(StoredBefore).page_id] # None) =>
            /\ r.status = "updated"
            /\ r.pageId = Get(StoredBefore).page_id
            /\ "pageRepo.update" \in Range(calls)
            /\ "pageRepo.create" \notin Range(calls)
            /\ stored # None
            /\ Get(stored).page_id = Get(StoredBefore).page_id
            /\ Get(stored).checksum = LoadedChecksum

\* the user changed the body since the sync that saved the mapping, and the
\* sync of the new text returned 'updated'
C4_Witness ==
  /\ Returned
  /\ ~ex.dryRun
  /\ StoredBefore # None
  /\ Get(StoredBefore).checksum[1].sha256.body # Get(ex.textBefore).body
  /\ Get(ex.response).status = "updated"
  /\ Get(Stored(ex.filePath)).checksum = LoadedChecksum

C8_Entries ==
  /\ Len(outcomes) > 0 => ctl.failed = None
  /\ (ctl.pc = "done" /\ ctl.failed = None) =>
       /\ ctl.outputs # None
       /\ Len(ctl.results) = Len(ctl.markdownFiles)
       /\ Len(outcomes) = Len(ctl.markdownFiles)
       /\ \A i \in DOMAIN ctl.results :
            LET entry == ctl.results[i]
                outcome == outcomes[i]
            IN /\ entry.file = ctl.markdownFiles[i]
               /\ outcome.file = ctl.markdownFiles[i]
               /\ outcome.thrown # None =>
                    entry = [file |-> outcome.file, status |-> "error",
                             pageId |-> EmptyId, notionUrl |-> None,
                             error |-> Some(Get(outcome.thrown).message)]
               /\ outcome.response # None =>
                    entry = [file |-> outcome.file,
                             status |-> Get(outcome.response).status,
                             pageId |-> Get(outcome.response).pageId,
                             notionUrl |-> Get(outcome.response).notionUrl,
                             error |-> None]

C8_CatchStep ==
  (ctl.pc = "awaitExecute" /\ Threw) =>
    /\ ctl' = [ctl EXCEPT !.pc = "loop",
                          !.results = Append(@, [file |-> ex.filePath,
                                                 status |-> "error",
                                                 pageId |-> EmptyId,
                                                 notionUrl |-> None,
                                                 error |-> Some(Get(ex.thrown).message)])]
    /\ UNCHANGED <<files, mappingFile, remote, generated, hist>>

C8_Isolation == []C8_Entries /\ [][C8_CatchStep]_vars

\* the first document's sync failed and the second one was still created
C8_Witness ==
  /\ ctl.pc = "done"
  /\ Len(ctl.results) = 2
  /\ ctl.results[1].status = "error"
  /\ ctl.results[2].status = "created"
  /\ ctl.failed = None

\* C2 - idempotence across runs, as claimed.  An execute that returns for a
\* path whose last event was a successful non-dry-run sync (no edit since)
\* returns 'unchanged' with that sync's page id and calls neither create nor
\* update.
C2_Idempotence ==
  (Returned /\ ex.prior # None) =>
    /\ ex.response = Some(Response("unchanged", Get(ex.prior), None))
    /\ Range(calls) \cap {"pageRepo.create", "pageRepo.update"} = {}

\* C6 - recreate on missing remote, as claimed.  A non-dry-run execute that
\* returns for a mapped path with a stale checksum whose mapped page the
\* remote service does not have returns 'created' with a new page id, and
\* the entry of the path points at the new id.
C6_RecreateOnMissingRemote ==
  (/\ Returned
   /\ ~ex.dryRun
   /\ StoredBefore # None
   /\ Get(StoredBefore).checksum # LoadedChecksum
   /\ remote[Get(StoredBefore).page_id] = None) =>
    /\ Get(ex.response).status = "created"
    /\ Get(ex.response).pageId \in GenIds \ {Get(StoredBefore).page_id}
    /\ Stored(ex.filePath) # None
    /\ Get(Stored(ex.filePath)).page_id = Get(ex.response).pageId

\* C9 - SyncError, as claimed.  An execute that rejects because the
\* gateway's create or update failed rejects with a SyncError whose cause is
\* the gateway's error.
C9_SyncErrorWrapsCause ==
  (Threw /\ ex.failedAt \in {"pageRepo.create", "pageRepo.update"}) =>
    /\ Get(ex.thrown).name = "SyncError"
    /\ Get(ex.thrown).cause # None
    /\ Get(Get(ex.thrown).cause).name = "Error"

NothingCommitted ==
  /\ mappingFile = ex.storeBefore
  /\ "mappingRepo.save" \notin Range(calls)
  /\ "linkUpdater.updateLinks" \notin Range(calls)

\* C10 as claimed: whichever gateway call of a sync fails (the update made
\* by the link reconciler included), the mapping file is as before the sync
\* and the link reconciler was not invoked.
C10_AnyGatewayFailure ==
  (Threw /\ ex.failedAt \in GatewayCalls \cup {"linkUpdater.pageRepo.update"})
    => NothingCommitted

\* C10 - no partial write, amended.  When the findById, create or update
\* that execute itself makes for the page write (step 5) fails, the mapping
\* file is exactly as it was when execute was called, no mapping save was
\* issued and the link reconciler was not invoked.
C10_NoPartialWrite ==
  (Threw /\ ex.failedAt \in GatewayCalls) => NothingCommitted

\* the update of a mapped page failed
C10_Witness ==
  /\ Threw
  /\ ex.failedAt = "pageRepo.update"
  /\ StoredBefore # None

\* C11 - the mapping store fails closed, as claimed.  When the mapping file
\* was damaged when execute was called, findByPath reports an error: execute
\* rejects at the mapping read, and no page is created for a path the file
\* had an entry for before the damage.
C11_StoreFailsClosed ==
  (/\ ex.storeBefore # None
   /\ IsGarbled(Get(ex.storeBefore))
   /\ Get(ex.storeBefore).garbled.mappings[ex.filePath] # None
   /\ "mappingRepo.findByPath" \in Range(calls)) =>
    /\ "pageRepo.create" \notin Range(calls)
    /\ ex.pc = "done"
    /\ ex.failedAt = "mappingRepo.findByPath"

\* the position of the first call of that name in the calls of the execute in
\* flight (0 when it was not called)
IndexOf(name) ==
  IF name \in Range(calls)
  THEN CHOOSE i \in DOMAIN calls :
         calls[i] = name /\ \A j \in 1..(i - 1) : calls[j] # name
  ELSE 0

\* C12 - mapping save ordering.  In an execute, a mapping save directly
\* follows a gateway create or update that succeeded (the page it returned is
\* held by the remote service and is the page the saved entry names); the
\* link reconciler is invoked only after the save; a non-dry-run execute that
\* returns 'created' or 'updated' has saved the mapping once; and the
\* mapping file differs from what it was at the call only after a save.
C12_SaveOrdering ==
  LET save == IndexOf("mappingRepo.save")
      links == IndexOf("linkUpdater.updateLinks")
  IN /\ save > 0 =>
          /\ save > 1
          /\ calls[save - 1] \in {"pageRepo.create", "pageRepo.update"}
          /\ \A j \in DOMAIN calls : calls[j] = "mappingRepo.save" => j = save
          /\ ex.failedAt \notin GatewayCalls
          /\ ex.page # None
          /\ remote[Get(ex.page).id] # None
          /\ Stored(ex.filePath) # None
          /\ Get(Stored(ex.filePath)).page_id = Get(ex.page).id
     /\ links > 0 => (save > 0 /\ save < links)
     /\ (Returned /\ ~ex.dryRun /\ Get(ex.response).status # "unchanged") => save > 0
     /\ (ex.pc # "idle" /\ mappingFile # ex.storeBefore) => save > 0

\* a first sync that returned: create, save, then the link reconciliation
C12_Witness ==
  /\ Returned
  /\ calls = <<"documentRepo.findByPath", "mappingRepo.findByPath", "pageRepo.create",
               "mappingRepo.save", "linkUpdater.updateLinks", "documentRepo.save",
               "pageRepo.update">>

\* the entry save writes for the mapping execute builds in step 6
SavedEntry ==
  [page_id |-> Get(ex.page).id,
   checksum |-> Get(ex.document).checksum,
   last_synced |-> toISOString(now)]

C13_OnePerPath ==
  mappingFile # None =>
    /\ DOMAIN Get(mappingFile).mappings = Paths
    /\ \A path \in Paths : Len(Stored(path)) <= 1

C13_SaveStep ==
  ex.pc = "saveMapping" =>
    /\ mappingFile' # None
    /\ StoredIn(mappingFile', ex.filePath) = Some(SavedEntry)
    /\ \A path \in Paths \ {ex.filePath} : StoredIn(mappingFile', path) = Stored(path)

\* C13 - unique mapping per path.  The mapping file holds its entries keyed
\* by file path, at most one per path; the save of execute replaces the
\* entry of the saved path (or adds it when there was none) and leaves the
\* entry of every other path as it was.
C13_UniqueMappingPerPath == []C13_OnePerPath /\ [][C13_SaveStep]_vars

\* a save has replaced the entry of a path while the other path keeps its own
C13_Witness ==
  /\ ex.pc = "updateLinks"
  /\ StoredBefore # None
  /\ Stored(ex.filePath) = Some(SavedEntry)
  /\ Stored(ex.filePath) # StoredBefore
  /\ \E path \in Paths \ {ex.filePath} :
       /\ Stored(path) # None
       /\ Stored(path) = StoredIn(ex.storeBefore, path)

C15_FingerprintIgnoresMetadata ==
  \A path \in Paths :
    files[path] # None =>
      Get(documentRepo_findByPath(path)).checksum
        = calculateChecksum(serialize(EmptyFrontmatter, Get(files[path]).body))

\* the status execute answers with, as a function of the state it was called
\* in: the entry of the path and the text of the file
StatusFrom(entry, text) ==
  IF entry # None /\ Get(entry).checksum = calculateChecksum(Get(text))
  THEN "unchanged"
  ELSE IF entry # None THEN "updated" ELSE "created"

\* C16 - dry-run mirrors the real run.  The status of every execute that
\* returns is the same function of the state it was called in, whatever the
\* dry-run flag: so a dry-run returns the status the successful real run
\* returns from that state.  When the skip rule fires the dry-run returns
\* 'unchanged' with the stored page id; otherwise it returns the page id
\* 'dry-run'.
C16_DryRunMirrors ==
  Returned =>
    LET r == Get(ex.response)
        status == StatusFrom(StoredBefore, ex.textBefore)
    IN /\ r.status = status
       /\ ex.dryRun =>
            r.pageId = IF status = "unchanged" THEN Get(StoredBefore).page_id
                       ELSE DryRunId

\* a dry-run of an unmapped path announced the creation
C16_Witness ==
  /\ Returned
  /\ ex.dryRun
  /\ StoredBefore = None
  /\ ex.response = Some(Response("created", DryRunId, None))

\* the rank of a page's edit access among the levels
AccessRank(page) ==
  CHOOSE i \in DOMAIN EditAccessLevels : EditAccessLevels[i] = page.permissions

C17_PagesHeld ==
  /\ \A id \in GenIds :
       remote[id] # None => Get(remote[id]).permissions = EditAccessLevels[1]
  /\ (ex.page # None /\ ex.existingPage # None) =>
       Get(ex.page).permissions = Get(ex.existingPage).permissions

C17_WriteStep ==
  /\ ex.pc = "createPage" =>
       \A id \in GenIds :
         (remote[id] = None /\ remote'[id] # None) =>
           Get(remote'[id]).permissions = EditAccessLevels[1]
  /\ ex.pc \in {"updatePage", "updateLinksPage"} =>
       \A id \in GenIds :
         remote'[id] # remote[id] =>
           /\ id = Get(ex'.page).id
           /\ ex.existingPage # None =>
                Get(remote'[id]).permissions = Get(ex.existingPage).permissions
  /\ \A id \in GenIds :
       (remote[id] # None /\ remote'[id] # None) =>
         AccessRank(Get(remote'[id])) <= AccessRank(Get(remote[id]))

\* C17 - read-only pages.  Every page handed to the gateway's create has
\* edit access 'none'; every page handed to the gateway's update (by
\* updatePage and by the link reconciler) has the permissions of the page
\* findById answered with; every page the remote service holds has edit
\* access 'none', and no step raises the access level of a page.
C17_ReadOnlyPages == []C17_PagesHeld /\ [][C17_WriteStep]_vars

\* an existing page has been updated with the permissions findById gave
C17_Witness ==
  /\ ex.pc = "saveMapping"
  /\ ex.existingPage # None
  /\ calls[Len(calls)] = "pageRepo.update"
  /\ remote[Get(ex.page).id] = ex.page
  /\ Get(ex.page).permissions = "none"

WriteCalls == {"documentRepo.save", "pageRepo.update"}

\* updateLinks has gone through both of its checks
LinksChecked == ex.pc = "done"

\* the invocation in flight follows one that resolved
Reinvoked ==
  /\ LinksChecked
  /\ Len(outcomes) >= 2
  /\ \A i \in DOMAIN outcomes : outcomes[i].thrown = None

BothLinksPresent ==
  /\ hasNotionUrl(Get(ex.document))
  /\ Get(ex.page).metadata.githubUrl # None

PagesOf(path) ==
  {id \in GenIds : remote[id] # None /\ hist.createdFor[id] = Some(path)}

Duplicate(path) == Cardinality(PagesOf(path)) >= 2

\* a sync of an unmapped path, cut between its create and its save, is
\* followed by a sync that returns 'created' after another create
C20_AfterCut ==
  (/\ Returned
   /\ ~ex.dryRun
   /\ StoredBefore = None
   /\ "create" \in hist.cut[ex.filePath]) =>
    /\ Get(ex.response).status = "created"
    /\ "pageRepo.create" \in Range(calls)
    /\ hist.createdFor[Get(ex.response).pageId] = Some(ex.filePath)

\* the abort itself writes nothing, and one that cuts the first sync of a
\* path between create and save leaves the path without a mapping and the
\* created page in the remote service
C20_CutStep ==
  hist'.cut # hist.cut =>
    /\ UNCHANGED <<files, mappingFile, remote>>
    /\ remote[Get(ex.page).id] # None
    /\ "create" \in hist'.cut[ex.filePath] \ hist.cut[ex.filePath] =>
         Stored(ex.filePath) = None

\* C20 as claimed: the only abort that leads to a duplicate page is the one
\* between the create for a previously unmapped path and the mapping save.
C20_OnlyFirstCreateWindow ==
  /\ C20_AfterCut
  /\ \A path \in Paths : Duplicate(path) => "create" \in hist.cut[path]

C20_NoOtherDuplicate ==
  /\ C20_AfterCut
  /\ \A path \in Paths : Duplicate(path) => hist.cut[path] # {}

\* C20 - crash window, amended.  An abort between a gateway create and the
\* mapping save - the create for a previously unmapped path, or the
\* re-creation for a mapped path whose page the remote service no longer
\* has - leaves the mapping file as it was and the created page in the remote
\* service; after such an abort for an unmapped path the next sync that
\* returns for the path has created another page and returns 'created'.  Two
\* pages created for one path exist remotely only after such an abort: an
\* abort at any other point never leads to a duplicate.
C20_CrashWindow == []C20_NoOtherDuplicate /\ [][C20_CutStep]_vars

\* the first sync of a path was cut after its create, the next one returned
\* 'created', and the remote service holds both pages
C20_Witness ==
  /\ Returned
  /\ StoredBefore = None
  /\ hist.cut[ex.filePath] = {"create"}
  /\ Get(ex.response).status = "created"
  /\ Duplicate(ex.filePath)

\* C21 - report consistency.  When the outputs have been set, the report has
\* total = created + updated + unchanged + errors, total is the number of
\* markdown files of the invocation, details holds one entry per file in the
\* order the files were processed, and synced-count is total - errors.
C21_ReportConsistent ==
  (ctl.pc = "done" /\ ctl.outputs # None) =>
    LET out == Get(ctl.outputs)
        report == out.syncReport
    IN /\ report.total = report.created + report.updated + report.unchanged
                           + report.errors
       /\ report.total = Len(ctl.markdownFiles)
       /\ Len(report.details) = Len(ctl.markdownFiles)
       /\ \A i \in DOMAIN report.details :
            /\ report.details[i].file = ctl.markdownFiles[i]
            /\ outcomes[i].file = ctl.markdownFiles[i]
       /\ out.syncedCount = report.total - report.errors

\* a report of two documents, one unchanged and one in error
C21_Witness ==
  /\ ctl.pc = "done"
  /\ ctl.outputs # None
  /\ Get(ctl.outputs).syncReport.total = 2
  /\ Get(ctl.outputs).syncReport.unchanged = 1
  /\ Get(ctl.outputs).syncReport.errors = 1

\* the invocation ended without running any execute
NoSyncRan == outcomes = <<>> /\ ex = ExIdle /\ calls = <<>>

\* C23 - invocation-level failure.  When the required token is missing or
\* the file discovery fails, run ends with the invocation marked failed
\* exactly once, with the message of the error; no execute was called and no
\* outputs were set.  Conversely an invocation is marked failed only so, and
\* run always ends (it never rejects): it ends either failed or with outputs.
C23_InvocationFailure ==
  /\ Len(ctl.failed) <= 1
  /\ ctl.failed # <<>> =>
       /\ ctl.pc = "done"
       /\ ctl.failed[1] \in {<<"glob", " failed">>,
                              <<"Input required and not supplied: ", "notion-token">>}
       /\ ctl.outputs = None
       /\ ctl.markdownFiles = <<>>
       /\ ctl.results = <<>>
       /\ NoSyncRan
  /\ ctl.pc = "done" => (ctl.failed # <<>>) # (ctl.outputs # None)

\* the invocation failed on the missing token
C23_Witness ==
  /\ ctl.pc = "done"
  /\ ctl.failed = <<(<<"Input required and not supplied: ", "notion-token">>)>>
  /\ ctl.outputs = None
  /\ NoSyncRan

\* C22 - page-urls completeness, as claimed, for the invocations that are
\* not dry-runs.  When the outputs have been set, page-urls holds one
\* {file, url} pair for every entry of the report whose status is not
\* 'error', in order, and none for the others.
C22_PageUrlsComplete ==
  (ctl.pc = "done" /\ ctl.outputs # None /\ ~ctl.dryRun) =>
    LET synced == SelectSeq(ctl.results, LAMBDA r : r.status # "error")
        pairs == Get(ctl.outputs).pageUrls
    IN /\ Len(pairs) = Len(synced)
       /\ \A i \in DOMAIN pairs : pairs[i].file = synced[i].file

\* C24 - the title is never empty, as claimed.  The page createPage builds
\* for a document has a non-empty title, whatever the path and the
\* front-matter of the document.
C24_TitleNonEmpty ==
  ex.page # None => Get(ex.page).title # <<>>

\* C25 - the option governs link writes, as claimed.  In an invocation run
\* with enable-bidirectional-links false, execute never enters link
\* reconciliation: updateLinks is not called and the source document is not
\* saved.
C25_OptionGovernsLinks ==
  ~ctl.enableBidirectionalLinks =>
    /\ "linkUpdater.updateLinks" \notin Range(calls)
    /\ "documentRepo.save" \notin Range(calls)

\* two documents were synced in the invocation, neither as a dry-run, and
\* both were created
BothCreated(first, second) ==
  /\ ~ctl.dryRun
  /\ Len(outcomes) = 2
  /\ outcomes[1].file = first /\ outcomes[2].file = second
  /\ \A i \in 1..2 : /\ outcomes[i].response # None
                      /\ Get(outcomes[i].response).status = "created"

\* C26 as claimed: the order is immaterial, page ids included.  Starting with
\* nothing synced, syncing docs/a.md then docs/b.md leaves docs/a.md mapped
\* to the first page the service creates and docs/b.md to the second; as
\* claimed, syncing docs/b.md then docs/a.md leaves that same store.
C26_SamePageIds ==
  ((BothCreated("docs/a.md", "docs/b.md") \/ BothCreated("docs/b.md", "docs/a.md"))
     /\ generated = 2 /\ Stored("docs/a.md") # None /\ Stored("docs/b.md") # None) =>
    /\ Get(Stored("docs/a.md")).page_id = GenId(1)
    /\ Get(Stored("docs/b.md")).page_id = GenId(2)

\* C26 - order independence, amended.  A step of the execute of one path
\* leaves the entry, the file and the pages of every other path as they are;
\* the status execute returns is a function of the entry and the text of its
\* own path alone; and the entry a real sync that returns leaves is the
\* checksum of the text it loaded with the page the path was mapped to, or,
\* when that page is gone or the path was unmapped, a page created for the
\* path in this execute.  So two documents synced in either order end with
\* the same statuses, checksums and page contents, and with the same page
\* ids except for the pages created on the way.
C26_OrderIndependent ==
  /\ [][(ex.pc \notin {"idle", "done"}) =>
          \A q \in Paths \ {ex.filePath} :
            /\ StoredIn(mappingFile', q) = StoredIn(mappingFile, q)
            /\ files'[q] = files[q]
            /\ \A id \in GenIds :
                 hist.createdFor[id] = Some(q) => remote'[id] = remote[id]]_vars
  /\ [](Returned =>
          /\ Get(ex.response).status = StatusFrom(StoredBefore, ex.textBefore)
          /\ (~ex.dryRun /\ Get(ex.response).status # "unchanged") =>
               LET entry == Get(Stored(ex.filePath))
               IN /\ entry.checksum = LoadedChecksum
                  /\ IF "pageRepo.create" \in Range(calls)
                     THEN hist.createdFor[entry.page_id] = Some(ex.filePath)
                     ELSE entry.page_id = Get(StoredBefore).page_id)

\* docs/b.md then docs/a.md, both created: docs/a.md has the second page
C26_Witness ==
  /\ BothCreated("docs/b.md", "docs/a.md")
  /\ Stored("docs/a.md") # None
  /\ Get(Stored("docs/a.md")).page_id = GenId(2)
  /\ Get(Stored("docs/b.md")).page_id = GenId(1)

\* every caller has saved its mapping, each for another path
SavesCompleted ==
  /\ \A c \in Callers : repo[c].pc = "done" /\ repo[c].name = "save"
  /\ \A c, d \in Callers : c # d => repo[c].path # repo[d].path

\* C27 - concurrent saves lose no mapping, as claimed.  Once the saves of
\* two callers for distinct paths have both completed, however their loads
\* and writes interleaved, the file holds the entry of each.
C27_ConcurrentSaves ==
  SavesCompleted =>
    \A c \in Callers :
      StoredIn(mappingFile, repo[c].path) =
        withMapping(EmptyData, Get(repo[c].mapping)).mappings[repo[c].path]

\* the operation the caller called last has resolved
Resolved(c, name) == repo[c].pc = "done" /\ repo[c].name = name

\* the paths the mapping file holds an entry for
StoredPaths == {path \in Paths : Stored(path) # None}

C29_SaveFrame ==
  \A c \in Callers :
    (Resolved(c, "save") \/ Resolved(c, "delete")) =>
      \A q \in Paths \ {repo[c].path} :
        StoredIn(mappingFile, q) = StoredIn(repo[c].fileBefore, q)

\* C30 - the back-reference agrees with the mapping, as claimed.  When a
\* non-dry-run execute has returned 'created' or 'updated', the notion_url in
\* the front-matter of the source file is the URL of the page id the mapping
\* file holds for the path, and is the notionUrl execute returned.
C30_BackReference ==
  (Returned /\ ~ex.dryRun /\ Get(ex.response).status \in {"created", "updated"}) =>
    LET notion_url == parse(Get(files[ex.filePath])).frontmatter.notion_url
    IN /\ notion_url = Some(generateNotionUrl(Get(Stored(ex.filePath)).page_id))
       /\ notion_url = Get(ex.response).notionUrl

\* run pushes the 'error' entry of an execute that rejected
PushesError ==
  /\ ctl.pc = "awaitExecute"
  /\ ex.pc = "done"
  /\ ex.thrown # None
  /\ Len(ctl'.results) = Len(ctl.results) + 1
  /\ ctl'.results[Len(ctl'.results)].status = "error"
  /\ ctl'.results[Len(ctl'.results)].file = ex.filePath

\* C31 as claimed: whenever run reports 'error' for a document, at whichever
\* step execute threw, the entry of the path in the mapping file is the one
\* it held before that sync.
C31_ErrorCommitsNothing ==
  [][PushesError => StoredIn(mappingFile', ex.filePath) = StoredBefore]_vars

\* C31 - an 'error' entry and the mapping, amended.  When run reports 'error'
\* for a document whose execute threw before the link reconciler (document
\* load, mapping read, findById, create, update), the entry of the path is
\* the one it held before that sync and no save was issued.  When execute
\* threw in the link reconciler, the mapping had been saved: the entry names
\* the page written and the checksum of the text execute loaded.
C31_ErrorEntry ==
  [][PushesError =>
       IF ex.failedAt = "linkUpdater.pageRepo.update"
       THEN /\ "mappingRepo.save" \in Range(calls)
            /\ StoredIn(mappingFile', ex.filePath) # None
            /\ Get(StoredIn(mappingFile', ex.filePath)).page_id = Get(ex.page).id
            /\ Get(StoredIn(mappingFile', ex.filePath)).checksum = LoadedChecksum
       ELSE /\ "mappingRepo.save" \notin Range(calls)
            /\ StoredIn(mappingFile', ex.filePath) = StoredBefore]_vars

\* an 'error' was reported for one document, and one is about to be reported
\* for a sync that failed in the link reconciler after its save
C31_Witness ==
  /\ ctl.pc = "awaitExecute"
  /\ Threw
  /\ ex.failedAt = "linkUpdater.pageRepo.update"
  /\ Stored(ex.filePath) # StoredBefore
  /\ \E i \in DOMAIN ctl.results : ctl.results[i].status = "error"

\* the sync in flight returned 'unchanged'
Converged == Returned /\ Get(ex.response).status = "unchanged"

\* C32 - convergence.  With the file not edited, whatever the mapping file
\* held at the start: if no call of the repeated syncs fails, a sync
\* eventually returns 'unchanged'; and once one has, every sync that returns
\* afterwards returns 'unchanged' having made the two reads only (no gateway
\* call, no mapping save, no document save).
C32_Convergence ==
  [](ex.thrown = None) =>
    /\ <>Converged
    /\ [](Converged =>
            [](/\ Range(calls) \subseteq ReadCalls
               /\ Returned => Converged))

\* the third sync of a new document: the page was created in the first, the
\* file carries the notion_url written then, and the sync returns 'unchanged'
C32_Witness ==
  /\ Converged
  /\ Get(ex.response).pageId \in GenIds
  /\ hist.createdFor[Get(ex.response).pageId] = Some(ex.filePath)
  /\ hasNotionUrl(Get(ex.document))
  /\ remote[Get(ex.response).pageId] # None

\* the syncs that ended before the one in flight
EarlierOutcomes ==
  IF ex.pc = "done" THEN SubSeq(outcomes, 1, Len(outcomes) - 1) ELSE outcomes

\* the sync ended with its gateway create rejected
CreateRejected(outcome) ==
  /\ outcome.thrown # None
  /\ Get(outcome.thrown) = GatewayFailure("create")

\* the pages the remote service created for the path
CreatedFor(path) == {id \in GenIds : hist.createdFor[id] = Some(path)}

C34_WholesaleUpdate ==
  (ex.pc = "saveMapping" /\ ex.existingPage # None) =>
    LET existingPage == Get(ex.existingPage)
        page == Get(ex.page)
    IN /\ page.id = existingPage.id
       /\ page.title = existingPage.title
       /\ page.metadata = existingPage.metadata
       /\ page.permissions = existingPage.permissions
       /\ page.blocks = <<[type |-> "paragraph", text |-> Get(ex.document).content]>>
       /\ Len(page.blocks) = 1
       /\ remote[page.id] = Some(page)
       /\ calls[Len(calls)] = "pageRepo.update"

\* a page of three blocks, a callout among them, was updated and is left
\* with the one block of the document
C34_Witness ==
  /\ ex.pc = "saveMapping"
  /\ ex.existingPage # None
  /\ Len(Get(ex.existingPage).blocks) = 3
  /\ Get(ex.existingPage).title = <<"a">>
  /\ Get(ex.existingPage).metadata.githubUrl # None
  /\ Len(Get(remote[Get(ex.existingPage).id]).blocks) = 1
  /\ Get(remote[Get(ex.existingPage).id]).blocks[1].type = "paragraph"

\* the name of the file ends with '.md'
IsMarkdown(file) ==
  LET text == PathText[file]
  IN /\ Len(text) >= 3
     /\ text[Len(text) - 2] = "." /\ text[Len(text) - 1] = "m" /\ text[Len(text)] = "d"

\* C35 - only markdown files are synced.  Whatever list of files was
\* discovered, the executes run has called so far are, in the order of the
\* list, the files of the list whose name ends with '.md', one execute each,
\* every one with the configured dry-run flag; when run sets its outputs,
\* execute has been called for every such file and for no other.
C35_OnlyMarkdown ==
  LET markdown == SelectSeq(ctl.discovered, IsMarkdown)
      called == [i \in DOMAIN outcomes |-> outcomes[i].file]
                  \o (IF ex.pc \in {"idle", "done"} THEN <<>> ELSE <<ex.filePath>>)
  IN ctl.pc # "idle" =>
       /\ ctl.markdownFiles = markdown
       /\ Len(called) <= Len(markdown)
       /\ called = SubSeq(markdown, 1, Len(called))
       /\ ex.pc # "idle" => ex.dryRun = ctl.dryRun
       /\ ctl.outputs # None => Len(called) = Len(markdown)

\* five files were discovered, the two documents among them in the order
\* docs/b.md, docs/a.md, and run has called execute for the two, in dry-run
C35_Witness ==
  /\ ctl.pc = "done"
  /\ ctl.outputs # None
  /\ ctl.dryRun
  /\ Len(ctl.discovered) = 5
  /\ Len(outcomes) = 2
  /\ outcomes[1].file = "docs/b.md"
  /\ outcomes[2].file = "docs/a.md"

\* C36 - the mapping store never records a placeholder id.  In every state
\* no entry of the mapping file has the empty id or 'dry-run' as its page
\* id: every stored page id is an id the gateway generated in a create (an
\* update returns the id it was given, which was read from the store).  A
\* save writes the id of the page the gateway call of the same execute
\* returned.
C36_NoPlaceholderId ==
  /\ \A path \in Paths :
       Stored(path) # None =>
         /\ Get(Stored(path)).page_id # EmptyId
         /\ Get(Stored(path)).page_id # DryRunId
         /\ Get(Stored(path)).page_id \in GenIds
         /\ hist.createdFor[Get(Stored(path)).page_id] # None
  /\ "mappingRepo.save" \in Range(calls) =>
       /\ ~ex.dryRun
       /\ ex.page # None
       /\ Range(calls) \cap {"pageRepo.create", "pageRepo.update"} # {}
       /\ Get(Stored(ex.filePath)).page_id = Get(ex.page).id

\* a dry-run of an unmapped document returned the id 'dry-run' while the
\* other document is mapped: the file holds the one entry, with a page id
C36_Witness ==
  /\ Returned
  /\ ex.dryRun
  /\ Get(ex.response).pageId = DryRunId
  /\ Stored(ex.filePath) = None
  /\ \E path \in Paths : Stored(path) # None

\* the front-matter keys of a document other than the given one are the same
\* in the copy
OtherKeysKept(document, copy, key) ==
  /\ DOMAIN copy.frontmatter = DOMAIN document.frontmatter
  /\ \A k \in DOMAIN document.frontmatter \ {key} :
       copy.frontmatter[k] = document.frontmatter[k]

\* the Document the copy was made from, field by field
SameBut(document, copy, key, value) ==
  /\ copy.path = document.path
  /\ copy.content = document.content
  /\ copy.checksum = document.checksum
  /\ copy.frontmatter[key] = Some(value)
  /\ OtherKeysKept(document, copy, key)

\* C37 - Document copy-on-write.  For every document, with or without a
\* notion_url, a last_synced or a title: withNotionUrl and
\* withUpdatedFrontmatter give a Document with the path, content and checksum
\* of the original whose front-matter is the original's with the given key
\* set and every other key as it was.  When updateLinks has saved the copy,
\* the document it was called with has no notion_url (in the first
\* invocation: it still has the front-matter read from the file before the
\* save), and the file holds the front-matter of the copy over the same body.
C37_CopyOnWrite ==
  /\ \A document \in LinkDocuments \cup TitleDocuments :
       /\ \A id \in GenIds :
            SameBut(document, withNotionUrl(document, generateNotionUrl(id)),
                    "notion_url", generateNotionUrl(id))
       /\ \A t \in 0..MaxClock :
            SameBut(document, withUpdatedFrontmatter(document, toISOString(t)),
                    "last_synced", toISOString(t))
  /\ (ex.pc = "updateLinksPage" /\ "documentRepo.save" \in Range(calls)) =>
       LET document == Get(ex.document)
           copy == withUpdatedFrontmatter(
                     withNotionUrl(document, generateNotionUrl(Get(ex.page).id)),
                     toISOString(now))
       IN /\ outcomes = <<>> =>
               document.frontmatter = parse(Get(ex.textBefore)).frontmatter
          /\ ~hasNotionUrl(document)
          /\ files[ex.filePath] = Some(serialize(copy.frontmatter, document.content))
          /\ parse(Get(files[ex.filePath])).body = parse(Get(ex.textBefore)).body

\* updateLinks saved the copy of a document that had no notion_url
C37_Witness ==
  /\ ex.pc = "updateLinksPage"
  /\ "documentRepo.save" \in Range(calls)
  /\ Get(ex.document).frontmatter.notion_url = None
  /\ parse(Get(files[ex.filePath])).frontmatter.notion_url
       = Some(generateNotionUrl(Get(ex.page).id))
  /\ parse(Get(files[ex.filePath])).frontmatter.last_synced = Some(toISOString(now))

\* C38 - GitHub link prepend.  For every page, whatever its blocks and its
\* metadata: withGitHubLink(url) gives a page with the same id, title and
\* permissions, whose blocks are one callout holding the url followed by the
\* blocks the page had, in their order, and whose metadata is the page's
\* with githubUrl set to the url.  The page updateLinks sends to the gateway
\* for a page without a githubUrl is that page.
C38_GitHubLinkPrepend ==
  /\ \A page \in AnyPages, path \in Paths :
       LET url == buildGitHubUrl(path)
           linked == withGitHubLink(page, url)
       IN /\ linked.id = page.id
          /\ linked.title = page.title
          /\ linked.permissions = page.permissions
          /\ Len(linked.blocks) = Len(page.blocks) + 1
          /\ linked.blocks[1].type = "callout"
          /\ linked.blocks[1].text = url
          /\ \A i \in DOMAIN page.blocks : linked.blocks[i + 1] = page.blocks[i]
          /\ linked.metadata.githubUrl = Some(url)
          /\ linked.metadata.sourceFile = page.metadata.sourceFile
          /\ DOMAIN linked.metadata = DOMAIN page.metadata
  /\ (Returned /\ "pageRepo.update" \in Range(calls) /\ ex.existingPage = None) =>
       LET page == Get(ex.page)
           held == Get(remote[page.id])
       IN /\ page.metadata.githubUrl = None
          /\ held.id = page.id /\ held.title = page.title
          /\ held.permissions = page.permissions
          /\ SubSeq(held.blocks, 2, Len(held.blocks)) = page.blocks
          /\ held.blocks[1].type = "callout"
          /\ held.blocks[1].text = buildGitHubUrl(ex.filePath)
          /\ held.metadata = [page.metadata EXCEPT !.githubUrl =
                                Some(buildGitHubUrl(ex.filePath))]

\* updateLinks sent a page that had three blocks, now the second to fourth
C38_Witness ==
  /\ Returned
  /\ calls = <<"pageRepo.update">>
  /\ Len(Get(ex.page).blocks) = 3
  /\ Len(Get(remote[Get(ex.page).id]).blocks) = 4
  /\ Get(remote[Get(ex.page).id]).blocks[4] = Get(ex.page).blocks[3]

\* C39 - title derivation, as claimed.  The page createPage builds for a
\* document whose front-matter has a title carries that title; for a
\* document without a title it carries the last '/'-separated segment of the
\* path with only its trailing '.md' removed.
C39_TitleDerivation ==
  (ex.page # None /\ ex.document # None) =>
    LET document == Get(ex.document)
        segment == LastSegment(PathText[document.path], "/")
        extension == <<".", "m", "d">>
        stripped == IF EndsWith(segment, extension)
                    THEN SubSeq(segment, 1, Len(segment) - Len(extension))
                    ELSE segment
    IN IF "title" \in DOMAIN document.frontmatter /\ document.frontmatter.title # <<>>
       THEN Get(ex.page).title = document.frontmatter.title
       ELSE "title" \notin DOMAIN document.frontmatter =>
              Get(ex.page).title = stripped

\* C40 - persisted checksum format, as claimed.  Every entry of the mapping
\* file holds a checksum that is the algorithm name, a colon and the hex
\* digits of the digest ('sha256:<hex>'), and a last_synced that is an
\* ISO-8601 timestamp.
C40_PersistedFormat ==
  \A path \in Paths :
    Stored(path) # None =>
      LET entry == Get(Stored(path))
      IN /\ "iso" \in DOMAIN entry.last_synced
         /\ Len(entry.checksum) = 3
         /\ entry.checksum[1] = "sha256"
         /\ entry.checksum[2] = ":"
         /\ "sha256" \in DOMAIN entry.checksum[3]

====
